---- MODULE Spec2Model ----
(***************************************************************************)
(* Formula watcher of app/workers/formula_watcher.py: the poll loop, the   *)
(* change detector over the fingerprint cache, the status-transition       *)
(* write, the single-flight recalculation pipeline and the start/stop      *)
(* lifecycle, as tasks of one cooperative asyncio event loop.  One action  *)
(* is one run of a task between two suspension points (awaits), or the     *)
(* database's evaluation of a statement a suspended task is waiting for.   *)
(***************************************************************************)
EXTENDS Integers, Sequences, FiniteSets, TLC

\* ------------------------------------------------------------------ bounds
\* Row ids of the reco_logics table are 1..MaxId.
MaxId == 2
\* Watcher loop tasks ever created by start_formula_watcher().
MaxTasks == 3
\* Poll cycles (fetches) started, over all loop tasks.
MaxPolls == 3
\* Writes to reco_logics by actors other than the watcher.
MaxEdits == 2
\* Concurrent callers of stop_formula_watcher().
MaxStoppers == 1
\* Rows of the fetch result handed to the detector in SpecDetect.
MaxLen == 2

\* ------------------------------------------------------ program constants
\* LIMIT of the fetch query.
FetchLimit == 50

\* -------------------------------------------------------------- the data
Ids == 1..MaxId
Tasks == 1..MaxTasks
Stoppers == 1..MaxStoppers

\* Python's None (a missing dict entry, a NULL column, an unset global).
None == "None"

\* Payload strings an operator stores in reco_logics.recologic.
Payloads == {"a", "b"}
\* What a row's recologic attribute can hold when it reaches the detector.
AnyPayload == Payloads \cup {"", None}

\* hashlib.md5(s.encode("utf-8")).hexdigest() on the strings of the model.
md5hex(s) ==
    CASE s = ""  -> "d41d8cd98f00b204e9800998ecf8427e"
      [] s = "a" -> "0cc175b9c0f1b6a831c399e269772661"
      [] s = "b" -> "92eb5ffee6ae2fec3ad71c777531578f"

\* _hash_recologic: payload = recologic or ""; md5 of it.
_hash_recologic(recologic) ==
    LET payload == IF recologic = None \/ recologic = "" THEN "" ELSE recologic
    IN  md5hex(payload)

Digests == {_hash_recologic(p) : p \in AnyPayload}

\* A dict is a sequence of <<key, value>> pairs with distinct keys, in
\* insertion order (Python dicts keep it; removed_ids is built in that order).
Keys(d) == {d[i][1] : i \in DOMAIN d}

\* dict.get(k): the value stored under k, None when k is no key.
DictGet(d, k) ==
    IF k \in Keys(d) THEN d[CHOOSE i \in DOMAIN d : d[i][1] = k][2] ELSE None

\* [f(x) for x in s]
RECURSIVE MapSeq(_, _)
MapSeq(f(_), s) == IF s = <<>> THEN <<>> ELSE <<f(Head(s))>> \o MapSeq(f, Tail(s))

RowIds(records) == {records[i].id : i \in DOMAIN records}

\* Line 179 with the cached fingerprint compared to the payload, not its hash.
IsChangedRaw(cache, row) == DictGet(cache, row.id) # row.recologic

\* Line 179: _formula_hash_cache.get(row.id) != current_hash.
IsChanged(cache, row) == DictGet(cache, row.id) # _hash_recologic(row.recologic)

\* Line 182 with current_ids filled inside the `if` of line 179, so that it
\* holds the ids of the changed rows only.
RemovedIdsOfChanged(cache, records) ==
    LET changed == SelectSeq(records, LAMBDA row :
                       DictGet(cache, row.id) # _hash_recologic(row.recologic))
        keys == MapSeq(LAMBDA kv : kv[1], cache)
    IN  SelectSeq(keys, LAMBDA rid : rid \notin RowIds(changed))

\* Line 182: [rid for rid in _formula_hash_cache.keys() if rid not in current_ids].
RemovedIds(cache, records) ==
    LET current_ids == RowIds(records)
        keys == MapSeq(LAMBDA kv : kv[1], cache)
    IN  SelectSeq(keys, LAMBDA rid : rid \notin current_ids)

\* _detect_changes(records) against the cache: (changed_records, removed_ids).
_detect_changes(records, cache) ==
    [changed_records |-> SelectSeq(records, LAMBDA row : IsChanged(cache, row)),
     removed_ids     |-> RemovedIds(cache, records)]

\* Lines 117-120 with the fingerprint taken of the row's status, not of its
\* payload.
CacheOfStatus(records) ==
    MapSeq(LAMBDA row : <<row.id, _hash_recologic(None)>>, records)

\* Lines 117-120: {row.id: _hash_recologic(row.recologic) for row in records}.
CacheOf(records) ==
    MapSeq(LAMBDA row : <<row.id, _hash_recologic(row.recologic)>>, records)

\* ------------------------------------------------------- the external store
\* reco_logics, the table: rows [id, recologic, status], kept in the order of
\* ORDER BY updated_date DESC (the most recently written row first).
\* OTHER stands for every status the watcher does not name.
Statuses == {"ACTIVE", "UPDATED", "PROCESSED", "OTHER"}

Visible(row) ==
    /\ row.recologic # None
    /\ row.recologic # ""
    /\ row.status \in {"UPDATED", "ACTIVE"}

FirstN(s, n) == IF Len(s) <= n THEN s ELSE SubSeq(s, 1, n)

\* The SELECT of _fetch_recologics on a table.
_fetch_recologics(table) == FirstN(SelectSeq(table, Visible), FetchLimit)

\* The UPDATE without `AND status IN ('UPDATED', 'ACTIVE')`: every row of
\* record_ids is written.
MarkWhateverStatus(table, record_ids, later) ==
    LET hit(row) == row.id \in record_ids
        touched == SelectSeq(table, hit)
        newer == SelectSeq(table, LAMBDA row : ~hit(row) /\ row.id \in later)
        older == SelectSeq(table, LAMBDA row : ~hit(row) /\ row.id \notin later)
    IN  newer \o MapSeq(LAMBDA row : [row EXCEPT !.status = "PROCESSED"], touched)
              \o older

\* Line 227, current_timestamp = datetime.now(): the time the UPDATE writes
\* as updated_date is read from the host's clock (naive local time, whole
\* seconds) before the statement is sent, and the other rows were stamped by
\* other writers, so the code does not fix how many of the rows that the
\* UPDATE leaves alone carry a later updated_date: any front part of the
\* table may.  The sets of ids such a front part can have.
LaterRows(table) == {RowIds(SubSeq(table, 1, n)) : n \in 0..Len(table)}

\* The UPDATE of _mark_as_processed: the rows of record_ids that are UPDATED or
\* ACTIVE become PROCESSED with updated_date = current_timestamp.  later
\* holds the ids of the rows with a later updated_date: those the UPDATE
\* leaves alone stay in front of the rows it writes, which come before the
\* other rows; the rows written keep the order they had among themselves.
_mark_as_processed(table, record_ids, later) ==
    LET hit(row) == row.id \in record_ids /\ row.status \in {"UPDATED", "ACTIVE"}
        touched == SelectSeq(table, hit)
        newer == SelectSeq(table, LAMBDA row : ~hit(row) /\ row.id \in later)
        older == SelectSeq(table, LAMBDA row : ~hit(row) /\ row.id \notin later)
    IN  newer \o MapSeq(LAMBDA row : [row EXCEPT !.status = "PROCESSED"], touched)
              \o older

\* An operator's write of payload p to row i (another part of the system):
\* a new row is ACTIVE, an edited one UPDATED; either is the latest write.
OperatorWrite(table, i, p) ==
    LET exists == i \in RowIds(table)
        rest == SelectSeq(table, LAMBDA row : row.id # i)
    IN  <<[id |-> i, recologic |-> p,
           status |-> IF exists THEN "UPDATED" ELSE "ACTIVE"]>> \o rest

\* ------------------------------------------------------ pipeline stages
\* The four stage calls of _trigger_recalculations, in the order of the code.
StageName(k) ==
    CASE k = 1 -> "populate_threepo"
      [] k = 2 -> "generate_trm"
      [] k = 3 -> "prepare_self_reco"
      [] k = 4 -> "prepare_cross_reco"

\* What a stage call can do (the stages live in app.routes.reconciliation):
\* return a result without an error indicator, return one with it, or raise
\* (a result without a get method raises at lines 279, 298, 308 inside the
\* stage's try); a returned dict may be one that json.dumps refuses (a key
\* that is no str, int, float, bool or None), with the indicator or without.
StageOutcomes == {"ok", "error", "raise", "unserializable", "error_unserializable"}

\* The outcomes that are a failure of the stage.
FailureOutcomes == {"error", "raise", "error_unserializable"}

\* The entry stage k leaves in results (lines 277-313).  Stages 1, 3 and 4
\* store what the call returned; stage 2 discards it and stores
\* {"success": True}; a raise stores {"error": str(exc)}.
StageEntry(k, outcome) ==
    IF outcome = "raise" THEN "error_raised"
    ELSE IF k = 2 THEN "success"
    ELSE IF outcome = "error" THEN "error_returned"
    ELSE IF outcome = "unserializable" THEN "unserializable"
    ELSE IF outcome = "error_unserializable" THEN "error_unserializable"
    ELSE "returned"

\* Whether stage k sets all_successful = False (lines 279-284, 290-293, ...).
StageFailed(k, outcome) ==
    \/ outcome = "raise"
    \/ k # 2 /\ outcome \in {"error", "error_unserializable"}

\* Line 315, json.dumps(results, default=str): it returns unless an entry is
\* a dict that json.dumps refuses.
Serializable(res) ==
    \A i \in DOMAIN res : res[i][2] \notin {"unserializable", "error_unserializable"}

\* ------------------------------------------------------------- the state
VARIABLES
    reco_logics,          \* the table (external store)
    _formula_hash_cache,  \* module global, line 23
    _initialized,         \* module global, line 24
    _recalc_lock,         \* module global, line 22: TRUE while held
    _watcher_task,        \* module global, line 20: a task, or 0 for None
    _stop_event,          \* module global, line 21: an Event, or 0 for None
    event_set,            \* the Event objects whose flag is set
    pc,                   \* where each loop task is suspended
    records,              \* locals of _formula_watcher_loop, per task
    changed_records,
    removed_ids,
    processed_ids,        \* ids appended at line 105 (a set: they feed an IN list)
    reply,                \* what the database did with the task's statement (the
                          \* SELECT of line 54, the UPDATE and COMMIT of lines
                          \* 244-245) while the task is still suspended
    results,              \* locals of _trigger_recalculations, per task
    all_successful,
    stage_failed,         \* some stage call of the run raised or returned an error
    log,                  \* the line at which the last step logged or left start(),
                          \* stop() or the pipeline: 144, 149, 156, 159, 162, 315, 320
    wait_event,           \* the Event a task waits on in wait_for (line 130)
    fetched,              \* the task's last fetch: "pending", "rows", "raised", or
                          \* "log_raised" when it returned and line 103 raised
    call,                 \* this cycle's _trigger_recalculations call
    cycles,               \* poll cycles the task has started: 0, 1, 2 for more
    completed,            \* of them, completed without an error: 0, 1, 2 for more
    cold,                 \* the cache was empty when start() made the task
    stop_pc,              \* per caller of stop_formula_watcher()
    stop_task,            \* the task that caller awaits (line 159)
    polls,                \* poll cycles started, all tasks (NoCount: not counted)
    edits,                \* writes by other actors so far
    probe                 \* input and output of the detector in SpecDetect

store_vars  == <<reco_logics, edits>>
global_vars == <<_formula_hash_cache, _initialized, _recalc_lock>>
life_vars   == <<_watcher_task, _stop_event, event_set, stop_pc, stop_task>>
cycle_vars  == <<records, changed_records, removed_ids, processed_ids, reply,
                 fetched, cycles, polls>>
ghost_vars  == <<completed, cold>>
run_vars    == <<results, all_successful, stage_failed>>
vars == <<reco_logics, _formula_hash_cache, _initialized, _recalc_lock,
          _watcher_task, _stop_event, event_set, pc, records, changed_records,
          removed_ids, processed_ids, reply, results, all_successful,
          stage_failed, log, wait_event,
          fetched, call,
          cycles, completed, cold, stop_pc, stop_task, polls, edits, probe>>

\* A task holds the lock exactly in these places.
PipelinePcs == {"setup", "stage1", "stage2", "stage3", "stage4", "exit"}
DonePcs == {"done", "failed"}
\* The third stage call written before the second.
StagePcSwapped(k) == CASE k = 1 -> "stage1" [] k = 2 -> "stage3"
                       [] k = 3 -> "stage2" [] k = 4 -> "stage4"
\* Where a task is suspended while stage k runs (lines 278, 288, 297, 307).
StagePc(k) == CASE k = 1 -> "stage1" [] k = 2 -> "stage2"
                [] k = 3 -> "stage3" [] k = 4 -> "stage4"
\* The stage a task is suspended in; 5 for the exit of the session block
\* (line 265), where the four stages are over.
StageOf(p) == CASE p = "stage1" -> 1 [] p = "stage2" -> 2
                [] p = "stage3" -> 3 [] p = "stage4" -> 4
                [] p = "exit" -> 5

NoProbe == [state |-> "off"]
\* The value of polls in a specification that does not bound the poll cycles.
NoCount == -1
NoLog == [line |-> 0]
\* No statement of the task is with the database.
NoReply == [kind |-> "none"]

\* The module globals of lines 20-24 after import; no task.
InitGlobals ==
    /\ _formula_hash_cache = <<>>
    /\ _initialized = FALSE
    /\ _recalc_lock = FALSE
    /\ _watcher_task = 0
    /\ _stop_event = 0
    /\ event_set = {}
    /\ pc = [t \in Tasks |-> "none"]
    /\ records = [t \in Tasks |-> <<>>]
    /\ changed_records = [t \in Tasks |-> <<>>]
    /\ removed_ids = [t \in Tasks |-> <<>>]
    /\ processed_ids = [t \in Tasks |-> {}]
    /\ reply = [t \in Tasks |-> NoReply]
    /\ results = [t \in Tasks |-> <<>>]
    /\ all_successful = [t \in Tasks |-> TRUE]
    /\ stage_failed = [t \in Tasks |-> FALSE]
    /\ log = NoLog
    /\ wait_event = [t \in Tasks |-> 0]
    /\ fetched = [t \in Tasks |-> "pending"]
    /\ call = [t \in Tasks |-> "none"]
    /\ cycles = [t \in Tasks |-> 0]
    /\ completed = [t \in Tasks |-> 0]
    /\ cold = [t \in Tasks |-> FALSE]
    /\ stop_pc = [c \in Stoppers |-> "idle"]
    /\ stop_task = [c \in Stoppers |-> 0]
    /\ edits = 0

\* The process after import, with an empty table.
InitSystem ==
    /\ reco_logics = <<>>
    /\ InitGlobals

Init ==
    /\ InitSystem
    /\ polls = 0
    /\ probe = NoProbe

\* ------------------------------------------------------- the poll loop
\* Line 89, `while not _stop_event.is_set()`, read by task t: with the global
\* None the attribute read raises and ends the task; with the event set the
\* loop returns; otherwise a cycle starts with the call of _fetch_recologics,
\* the locals still bound as the previous cycle left them (records since the
\* last fetch that returned, changed_records and removed_ids since the last
\* one that returned rows) and fetched telling how the previous fetch ended.
\* A task that is over keeps no locals.
LoopHead(t) ==
    IF _stop_event = 0 \/ _stop_event \in event_set THEN
        /\ pc' = [pc EXCEPT ![t] = IF _stop_event = 0 THEN "failed" ELSE "done"]
        /\ records' = [records EXCEPT ![t] = <<>>]
        /\ changed_records' = [changed_records EXCEPT ![t] = <<>>]
        /\ removed_ids' = [removed_ids EXCEPT ![t] = <<>>]
        /\ processed_ids' = [processed_ids EXCEPT ![t] = {}]
        /\ reply' = [reply EXCEPT ![t] = NoReply]
        /\ fetched' = [fetched EXCEPT ![t] = "pending"]
        /\ call' = [call EXCEPT ![t] = "none"]
        /\ cycles' = [cycles EXCEPT ![t] = 0]
        /\ completed' = [completed EXCEPT ![t] = 0]
        /\ cold' = [cold EXCEPT ![t] = FALSE]
        /\ UNCHANGED polls
    ELSE
        /\ polls < MaxPolls
        /\ pc' = [pc EXCEPT ![t] = "fetch"]
        /\ polls' = IF polls = NoCount THEN polls ELSE polls + 1
        /\ cycles' = [cycles EXCEPT ![t] = IF @ < 2 THEN @ + 1 ELSE @]
        /\ UNCHANGED ghost_vars
        /\ call' = [call EXCEPT ![t] = "none"]
        /\ UNCHANGED <<records, changed_records, removed_ids, processed_ids,
                       reply, fetched>>

\* Lines 128-132 with the interval spent in asyncio.sleep: the loop waits on
\* no event.
EnterWaitSleep(t) ==
    /\ pc' = [pc EXCEPT ![t] = "wait"]
    /\ UNCHANGED wait_event

\* Lines 128-132: the cycle body is over and wait_for(_stop_event.wait(), ...)
\* is entered; `_stop_event.wait` on None raises, which ends the task.
EnterWait(t) ==
    IF _stop_event = 0 THEN
        /\ pc' = [pc EXCEPT ![t] = "failed"]
        /\ UNCHANGED wait_event
    ELSE
        /\ pc' = [pc EXCEPT ![t] = "wait"]
        /\ wait_event' = [wait_event EXCEPT ![t] = _stop_event]

\* Lines 116-123: the cache is replaced by the fingerprints of this cycle's
\* rows and _initialized is set; then the wait.
FinishCycle(t, rows) ==
    /\ _formula_hash_cache' = CacheOf(rows)
    /\ _initialized' = TRUE
    /\ completed' = [completed EXCEPT ![t] = IF @ < 2 THEN @ + 1 ELSE @]
    /\ EnterWait(t)

\* Line 113: (changed_records or removed_ids) and _initialized.
ShouldTrigger(changed, removed, initialized) ==
    (changed # <<>> \/ removed # <<>>) /\ initialized

\* Line 254 without the check: every call goes on to the acquire.
LockedNever(lock) == FALSE

\* Line 254: _recalc_lock.locked().
Locked(lock) == lock

\* Line 258 without the `async with`: the lock is never taken.
AcquireNothing(lock) == lock

\* Line 258: the lock after `async with _recalc_lock` is entered.
Acquire(lock) == TRUE

\* Line 258 as a bare acquire() with no release: the lock stays held.
ReleaseNever(lock, ok) == lock

\* A release written after the stages instead of by `async with`: a set-up
\* failure leaves the lock held.
ReleaseUnlessFailed(lock, ok) == ~ok

\* Lines 258-320: the lock after the `async with` block is left, by the end
\* of the stages (ok) or through the handler of line 319 (set-up failed).
Release(lock, ok) == FALSE

\* The try of line 261 opened after the set-up: its exception escapes.
PropagatesSetup(origin) == origin = "setup"

\* Lines 261/319: whether an exception of the given origin leaves
\* _trigger_recalculations.  The set-up is inside the try of line 261 and
\* each stage call inside its own try, so none does.
Propagates(origin) == FALSE

\* Lines 112-123 from the trigger decision on.  _trigger_recalculations returns
\* at once when the lock is held; otherwise it takes the lock and suspends in
\* the set-up or the first stage; an acquire of a held lock would wait.
TriggerOrFinish(t, rows, changed, removed) ==
    IF ShouldTrigger(changed, removed, _initialized) THEN
        IF Locked(_recalc_lock) THEN
            /\ call' = [call EXCEPT ![t] = "dropped"]
            /\ FinishCycle(t, rows)
            /\ UNCHANGED _recalc_lock
        ELSE IF ~_recalc_lock THEN
            /\ call' = [call EXCEPT ![t] = "run"]
            /\ _recalc_lock' = Acquire(_recalc_lock)
            /\ pc' = [pc EXCEPT ![t] = "setup"]
            /\ UNCHANGED <<_formula_hash_cache, _initialized, wait_event, completed>>
        ELSE
            /\ call' = [call EXCEPT ![t] = "queued"]
            /\ pc' = [pc EXCEPT ![t] = "acquire"]
            /\ UNCHANGED <<_recalc_lock, _formula_hash_cache, _initialized,
                           wait_event, completed>>
    ELSE
        /\ FinishCycle(t, rows)
        /\ UNCHANGED <<call, _recalc_lock>>

\* The cycle body without the try of line 90: its exception ends the task.
CycleErrorEscapes == FALSE

\* Lines 90/125: an exception of the cycle body is caught and logged by the
\* handler of line 125, and the loop goes on to the interval wait.
CycleErrorCaught == TRUE

\* Lines 100-109 with the write left out: no cycle issues it.
HasProcessedIdsNever(changed) == FALSE

\* Lines 100 and 108, `if changed_records:` and `if processed_ids:` (every
\* fetched row has an id): whether the cycle issues the transition write.
HasProcessedIds(changed) == changed # <<>>

\* The task created by start() runs for the first time.
TaskStart(t) ==
    /\ pc[t] = "start"
    /\ LoopHead(t)
    /\ log' = NoLog
    /\ UNCHANGED <<store_vars, global_vars, life_vars, run_vars, wait_event, probe>>

\* The handler of line 125 written like the branch of line 95: it empties
\* the cache.
CacheAfterErrorEmptied(cache) == <<>>

\* Lines 125-126: the handler logs the exception; the cache stays as the
\* last cycle that reached line 95 or line 117 left it.
CacheAfterError(cache) == cache

\* Lines 101-105: processed_ids, the ids of the rows logged.
ProcessedIds(logged) == {logged[i].id : i \in DOMAIN logged}

\* Line 54, `await session.execute(query)`, seen from the database: the
\* SELECT of task t is evaluated on the table as it is now, or the fetch
\* fails (engines, session, statement, or the close of the session when
\* the block of line 44 is left); the task stays suspended until the answer
\* is delivered and the close of the session has returned or raised.
FetchExecute(t, ok) ==
    /\ pc[t] = "fetch"
    /\ reply[t] = NoReply
    /\ reply' = [reply EXCEPT ![t] =
                    IF ok THEN [kind |-> "rows", rows |-> _fetch_recologics(reco_logics)]
                    ELSE [kind |-> "error"]]
    /\ log' = NoLog
    /\ UNCHANGED <<store_vars, global_vars, life_vars, pc, records, changed_records,
                   removed_ids, processed_ids, fetched, cycles, polls, run_vars,
                   wait_event, call, ghost_vars, probe>>

\* The database answers the SELECT of line 54.
FetchExecuted(t) == \E ok \in BOOLEAN : FetchExecute(t, ok)

\* Lines 91-114 from the return of _fetch_recologics up to the next await;
\* the step is taken when the close of the session (exit of the block of
\* line 44) has answered, which nothing in the code bounds:
\* the fetch raises (the handler of line 125 logs it), returns no rows
\* (line 95), or returns the rows the database read, which are diffed against
\* the cache as it is now and logged; changed rows lead to the transition
\* write.  _log_formula_row returns for the first `loggable` changed rows and
\* raises for the next one, if there is one (print on a closed stream,
\* json.loads of a payload nested deeper than the recursion limit): the
\* exception leaves the loop of lines 102-105 for the handler of line 125.
Fetch(t, loggable) ==
    /\ pc[t] = "fetch"
    /\ reply[t] # NoReply
    /\ reply' = [reply EXCEPT ![t] = NoReply]
    /\   IF reply[t].kind = "error" THEN
             /\ fetched' = [fetched EXCEPT ![t] = "raised"]
             /\ IF CycleErrorCaught THEN
                    EnterWait(t)
                ELSE
                    /\ pc' = [pc EXCEPT ![t] = "failed"]
                    /\ UNCHANGED wait_event
             /\ _formula_hash_cache' = CacheAfterError(_formula_hash_cache)
             /\ UNCHANGED <<records, changed_records, removed_ids, processed_ids,
                            call, _initialized, _recalc_lock, completed>>
         ELSE
             LET rows == reply[t].rows
                 d == _detect_changes(rows, _formula_hash_cache)
                 n == IF loggable < Len(d.changed_records)
                      THEN loggable ELSE Len(d.changed_records)
                 writes == rows # <<>> /\ HasProcessedIds(d.changed_records)
                 log_raises == writes /\ n < Len(d.changed_records)
             IN  /\ fetched' = [fetched EXCEPT ![t] =
                                    IF log_raises THEN "log_raised" ELSE "rows"]
                 /\ records' = [records EXCEPT ![t] = rows]
                 /\ processed_ids' =
                        IF writes
                        THEN [processed_ids EXCEPT
                                 ![t] = ProcessedIds(FirstN(d.changed_records, n))]
                        ELSE processed_ids
                 /\ IF rows = <<>> THEN
                        /\ _formula_hash_cache' = <<>>
                        /\ completed' = [completed EXCEPT ![t] = IF @ < 2 THEN @ + 1 ELSE @]
                        /\ EnterWait(t)
                        /\ UNCHANGED <<changed_records, removed_ids, call,
                                       _initialized, _recalc_lock>>
                    ELSE
                        /\ changed_records' = [changed_records EXCEPT ![t] = d.changed_records]
                        /\ removed_ids' = [removed_ids EXCEPT ![t] = d.removed_ids]
                        /\ IF log_raises THEN
                               /\ IF CycleErrorCaught THEN
                                      EnterWait(t)
                                  ELSE
                                      /\ pc' = [pc EXCEPT ![t] = "failed"]
                                      /\ UNCHANGED wait_event
                               /\ _formula_hash_cache' = CacheAfterError(_formula_hash_cache)
                               /\ UNCHANGED <<call, _initialized, _recalc_lock, completed>>
                           ELSE IF writes THEN
                               /\ pc' = [pc EXCEPT ![t] = "mark"]
                               /\ UNCHANGED <<call, global_vars, wait_event, completed>>
                           ELSE
                               TriggerOrFinish(t, rows, d.changed_records, d.removed_ids)
    /\ log' = NoLog
    /\ UNCHANGED <<store_vars, life_vars, run_vars, cycles, polls, cold, probe>>

\* The await of line 91 ends: _fetch_recologics returns or raises.
FetchDone(t) == \E loggable \in 0..MaxId : Fetch(t, loggable)

\* What the database makes of the UPDATE and COMMIT of lines 244-245: it
\* commits and says so, it fails (engines, session, statement, commit) and
\* changes nothing, or it commits and the answer to the commit is an error.
WriteOutcomes == {"committed", "failed", "reply_lost"}

\* The rows are changed by the write of that outcome.
Applied(outcome) == outcome # "failed"

\* What the awaits of lines 244-245 give the task.
Answer(outcome) == IF outcome = "committed" THEN "committed" ELSE "failed"

\* Lines 244-245, `await session.execute(...)` and `await session.commit()`,
\* seen from the database: the UPDATE of task t is committed on the table as
\* it is now, with the time of line 227 as updated_date, or the write fails
\* and leaves the table as it is; the answer the task will get is the
\* success or an exception.  The task stays suspended until the answer is
\* delivered and the close of the session (exit of the block of line 229)
\* has returned or raised.
MarkExecute(t, outcome) ==
    /\ pc[t] = "mark"
    /\ reply[t] = NoReply
    /\ \E later \in LaterRows(reco_logics) :
         reco_logics' = IF Applied(outcome)
                        THEN _mark_as_processed(reco_logics, processed_ids[t], later)
                        ELSE reco_logics
    /\ reply' = [reply EXCEPT ![t] = [kind |-> Answer(outcome)]]
    /\ log' = NoLog
    /\ UNCHANGED <<edits, global_vars, life_vars, pc, records, changed_records,
                   removed_ids, processed_ids, fetched, cycles, polls, run_vars,
                   wait_event, call, ghost_vars, probe>>

\* The database answers the UPDATE and COMMIT of lines 244-245.
MarkExecuted(t) == \E outcome \in WriteOutcomes : MarkExecute(t, outcome)

\* Lines 109-114 from the return of _mark_as_processed, which has logged its
\* success (line 247), its failure (line 249), or both when the close of the
\* session raised after line 247, and returns None in every case: line 110,
\* then the trigger decision.  The step is taken when the close of the
\* session has answered, which nothing in the code bounds.
Mark(t) ==
    /\ pc[t] = "mark"
    /\ reply[t] # NoReply
    /\ reply' = [reply EXCEPT ![t] = NoReply]
    /\ TriggerOrFinish(t, records[t], changed_records[t], removed_ids[t])
    /\ log' = NoLog
    /\ UNCHANGED <<store_vars, life_vars, records, changed_records, removed_ids,
                   processed_ids, fetched, cycles, polls, run_vars, cold, probe>>

\* The await of line 109 ends.
MarkDone(t) == Mark(t)

\* The return of _trigger_recalculations into line 114, or its exception
\* into the handler of line 125, which skips lines 116-123.
TriggerEnds(t, origin) ==
    IF Propagates(origin) THEN
        /\ call' = [call EXCEPT ![t] = "raised"]
        /\ EnterWait(t)
        /\ UNCHANGED <<_formula_hash_cache, _initialized, completed>>
    ELSE
        /\ call' = [call EXCEPT ![t] = "returned"]
        /\ FinishCycle(t, records[t])

\* Lines 261-271 under the lock: engines, session and stage imports.  A failure
\* is caught and logged at lines 319-320 and the lock is released.
Setup(t, ok) ==
    /\ pc[t] \in (IF _recalc_lock THEN {"setup"} ELSE {"setup", "acquire"})
    /\   IF ok THEN
             /\ pc' = [pc EXCEPT ![t] = StagePc(1)]
             /\ _recalc_lock' = Acquire(_recalc_lock)
             /\ log' = NoLog
             /\ UNCHANGED <<_formula_hash_cache, _initialized, wait_event, call, completed>>
         ELSE
             /\ _recalc_lock' = Release(_recalc_lock, FALSE)
             /\ log' = [line |-> 320, task |-> t]
             /\ TriggerEnds(t, "setup")
    /\ UNCHANGED <<store_vars, life_vars, cycle_vars, run_vars, cold, probe>>

\* The set-up of a run succeeds or fails.
PipelineSetup(t) == \E ok \in BOOLEAN : Setup(t, ok)

\* Lines 276-318: stage k returns or raises inside its own try and the next
\* stage is called; after the fourth the results are logged (line 315, and
\* line 318 unless all_successful) unless json.dumps refuses them, and the
\* session block of line 265 is left, which suspends the task with the lock
\* held.  log keeps the keys of the logged results and the flag that decides
\* line 318.
Stage(t, outcome) ==
    /\ pc[t] \in {StagePc(k) : k \in 1..4}
    /\ LET k == StageOf(pc[t]) IN
         LET res == Append(results[t], <<StageName(k), StageEntry(k, outcome)>>)
             flag == all_successful[t] /\ ~StageFailed(k, outcome)
             failed == stage_failed[t] \/ outcome \in FailureOutcomes
         IN  /\ results' = [results EXCEPT ![t] = res]
             /\ all_successful' = [all_successful EXCEPT ![t] = flag]
             /\ stage_failed' = [stage_failed EXCEPT ![t] = failed]
             /\ IF k < 4 THEN
                    /\ pc' = [pc EXCEPT ![t] = StagePc(k + 1)]
                    /\ log' = NoLog
                ELSE
                    /\ pc' = [pc EXCEPT ![t] = "exit"]
                    /\ log' = IF Serializable(res)
                              THEN [line |-> 315, task |-> t,
                                    stages |-> MapSeq(LAMBDA e : e[1], res),
                                    all_successful |-> flag, stage_failed |-> failed]
                              ELSE NoLog
    /\ UNCHANGED <<store_vars, global_vars, life_vars, cycle_vars, wait_event,
                   call, ghost_vars, probe>>

\* The stage call a task is suspended in returns or raises.
PipelineStage(t) == \E outcome \in StageOutcomes : Stage(t, outcome)

\* Lines 265-320 from the exit of the session block: the session is closed
\* (ok) or its close raises; an exception of line 315 or of the close is
\* logged by the handler of line 319; then the lock is released and the call
\* returns.
Exit(t, ok) ==
    /\ pc[t] = "exit"
    /\ LET raised == ~Serializable(results[t]) \/ ~ok
       IN  /\ log' = IF raised THEN [line |-> 320, task |-> t] ELSE NoLog
           /\ TriggerEnds(t, IF raised THEN "exit" ELSE "stage")
    /\ results' = [results EXCEPT ![t] = <<>>]
    /\ all_successful' = [all_successful EXCEPT ![t] = TRUE]
    /\ stage_failed' = [stage_failed EXCEPT ![t] = FALSE]
    /\ _recalc_lock' = Release(_recalc_lock, TRUE)
    /\ UNCHANGED <<store_vars, life_vars, cycle_vars, cold, probe>>

\* The await of the session's exit ends.
PipelineExit(t) == \E ok \in BOOLEAN : Exit(t, ok)

\* Line 133: the wait times out and the loop continues.
WaitTimeout(t) ==
    /\ pc[t] = "wait"
    /\ LoopHead(t)
    /\ wait_event' = [wait_event EXCEPT ![t] = 0]
    /\ log' = NoLog
    /\ UNCHANGED <<store_vars, global_vars, life_vars, run_vars, probe>>

\* Lines 129-132: the awaited event is set and wait_for returns.
WaitStopped(t) ==
    /\ pc[t] = "wait"
    /\ wait_event[t] \in event_set
    /\ LoopHead(t)
    /\ wait_event' = [wait_event EXCEPT ![t] = 0]
    /\ log' = NoLog
    /\ UNCHANGED <<store_vars, global_vars, life_vars, run_vars, probe>>

\* ------------------------------------------------------------ lifecycle
\* Lines 147-149 with the detector reset for the new loop: the cache is
\* emptied and _initialized is cleared.
CreateTaskCold ==
    \E n \in Tasks :
        /\ log' = [line |-> 149, task |-> n]
        /\ pc[n] = "none"
        /\ \A m \in Tasks : m < n => pc[m] # "none"
        /\ _stop_event' = n
        /\ _watcher_task' = n
        /\ pc' = [pc EXCEPT ![n] = "start"]
        /\ cold' = [cold EXCEPT ![n] = TRUE]
        /\ _formula_hash_cache' = <<>>
        /\ _initialized' = FALSE
        /\ UNCHANGED <<store_vars, _recalc_lock, event_set, stop_pc, stop_task,
                       cycle_vars, run_vars, wait_event, call, completed, probe>>

\* Lines 147-149: a new Event and a new task, the first unused one.
\* start_formula_watcher() does nothing but log line 144 while the task of
\* the handle runs, and creates the Event and the task otherwise.
CreateTask ==
    \E n \in Tasks :
        /\ log' = [line |-> 149, task |-> n]
        /\ pc[n] = "none"
        /\ \A m \in Tasks : m < n => pc[m] # "none"
        /\ _stop_event' = n
        /\ _watcher_task' = n
        /\ pc' = [pc EXCEPT ![n] = "start"]
        /\ cold' = [cold EXCEPT ![n] = (_formula_hash_cache = <<>>)]
        /\ UNCHANGED <<store_vars, global_vars, event_set, stop_pc, stop_task,
                       cycle_vars, run_vars, wait_event, call, completed, probe>>

\* start_formula_watcher() without the check of line 143.
StartUnchecked == CreateTask

start_formula_watcher ==
    IF _watcher_task # 0 /\ pc[_watcher_task] \notin DonePcs THEN
        /\ log' = [line |-> 144]
        /\ UNCHANGED <<store_vars, global_vars, life_vars, pc, cycle_vars,
                       run_vars, wait_event, call, ghost_vars, probe>>
    ELSE
        CreateTask

\* Line 156 with the globals of the detector reset by a stop() that finds no
\* task.
StopNothingReset ==
    /\ log' = [line |-> 156]
    /\ _formula_hash_cache' = <<>>
    /\ _initialized' = FALSE
    /\ UNCHANGED <<store_vars, _recalc_lock, life_vars, pc, cycle_vars,
                   run_vars, wait_event, call, ghost_vars, probe>>

\* Line 156, `if _watcher_task:` with the handle None: stop() returns.
StopNothing ==
    /\ log' = [line |-> 156]
    /\ UNCHANGED <<store_vars, global_vars, life_vars, pc, cycle_vars,
                   run_vars, wait_event, call, ghost_vars, probe>>

\* stop_formula_watcher() by caller c up to `await _watcher_task`: the event
\* is set; a finished task is awaited without suspending (a failed one raises
\* out of stop()); a running one suspends the caller.  log tells how far the
\* call got: line 156, line 159 or line 162.
StopCall(c) ==
    /\ stop_pc[c] = "idle"
    /\ IF _watcher_task = 0 THEN
           StopNothing
       ELSE
           /\ event_set' = IF _stop_event # 0 THEN event_set \cup {_stop_event}
                           ELSE event_set
           /\ IF pc[_watcher_task] = "done" THEN
                  /\ _watcher_task' = 0
                  /\ _stop_event' = 0
                  /\ log' = [line |-> 162]
                  /\ UNCHANGED <<stop_pc, stop_task>>
              ELSE IF pc[_watcher_task] = "failed" THEN
                  /\ log' = [line |-> 159]
                  /\ UNCHANGED <<_watcher_task, _stop_event, stop_pc, stop_task>>
              ELSE
                  /\ stop_pc' = [stop_pc EXCEPT ![c] = "await"]
                  /\ stop_task' = [stop_task EXCEPT ![c] = _watcher_task]
                  /\ log' = [line |-> 159]
                  /\ UNCHANGED <<_watcher_task, _stop_event>>
           /\ UNCHANGED <<store_vars, global_vars, pc, cycle_vars, run_vars,
                          wait_event, call, ghost_vars, probe>>

\* Lines 159-162: the awaited task is over; its exception, if any, leaves
\* stop(); otherwise the handle and the event are cleared.
StopResume(c) ==
    /\ stop_pc[c] = "await"
    /\ pc[stop_task[c]] \in DonePcs
    /\ stop_pc' = [stop_pc EXCEPT ![c] = "idle"]
    /\ stop_task' = [stop_task EXCEPT ![c] = 0]
    /\ IF pc[stop_task[c]] = "done" THEN
           /\ _watcher_task' = 0
           /\ _stop_event' = 0
           /\ log' = [line |-> 162]
       ELSE
           /\ log' = [line |-> 159]
           /\ UNCHANGED <<_watcher_task, _stop_event>>
    /\ UNCHANGED <<store_vars, global_vars, event_set, pc, cycle_vars, run_vars,
                   wait_event, call, ghost_vars, probe>>

\* --------------------------------------------------------- other actors
\* An operator creates or edits a formula row.
OperatorEdit ==
    /\ edits < MaxEdits
    /\ \E i \in Ids, p \in Payloads :
         reco_logics' = OperatorWrite(reco_logics, i, p)
    /\ edits' = edits + 1
    /\ log' = NoLog
    /\ UNCHANGED <<global_vars, life_vars, pc, cycle_vars, run_vars, wait_event,
                   call, ghost_vars, probe>>

Next ==
    \/ \E t \in Tasks : TaskStart(t)
    \/ \E t \in Tasks : FetchExecuted(t)
    \/ \E t \in Tasks : FetchDone(t)
    \/ \E t \in Tasks : MarkExecuted(t)
    \/ \E t \in Tasks : MarkDone(t)
    \/ \E t \in Tasks : PipelineSetup(t)
    \/ \E t \in Tasks : PipelineStage(t)
    \/ \E t \in Tasks : PipelineExit(t)
    \/ \E t \in Tasks : WaitTimeout(t)
    \/ \E t \in Tasks : WaitStopped(t)
    \/ start_formula_watcher
    \/ \E c \in Stoppers : StopCall(c)
    \/ \E c \in Stoppers : StopResume(c)
    \/ OperatorEdit

Spec == Init /\ [][Next]_vars

\* The lifecycle as app/main.py drives it, start() from the startup hook and
\* stop() from the shutdown hook, one call after the other: start() is not
\* called while a stop() is suspended at line 159.
StartSerial ==
    /\ \A c \in Stoppers : stop_pc[c] = "idle"
    /\ start_formula_watcher

NextSerial ==
    \/ \E t \in Tasks : TaskStart(t)
    \/ \E t \in Tasks : FetchExecuted(t)
    \/ \E t \in Tasks : FetchDone(t)
    \/ \E t \in Tasks : MarkExecuted(t)
    \/ \E t \in Tasks : MarkDone(t)
    \/ \E t \in Tasks : PipelineSetup(t)
    \/ \E t \in Tasks : PipelineStage(t)
    \/ \E t \in Tasks : PipelineExit(t)
    \/ \E t \in Tasks : WaitTimeout(t)
    \/ \E t \in Tasks : WaitStopped(t)
    \/ StartSerial
    \/ \E c \in Stoppers : StopCall(c)
    \/ \E c \in Stoppers : StopResume(c)
    \/ OperatorEdit

SpecSerial == Init /\ [][NextSerial]_vars

\* app/main.py, startup_event (line 97): start_formula_watcher() is called
\* once, when no loop task has been made.
Startup ==
    /\ \A t \in Tasks : pc[t] = "none"
    /\ start_formula_watcher

\* ------------------------------------------- lifecycle calls from any task
\* start() and stop() called from different tasks at any time (start() also
\* while a stop() is suspended at line 159, which leaves two loops alive);
\* the database, the log and the set-up may fail as in Next; every stage
\* returns a plain result and the session of the run closes.
NextRace ==
    \/ \E t \in Tasks : TaskStart(t)
    \/ \E t \in Tasks : FetchExecuted(t)
    \/ \E t \in Tasks : FetchDone(t)
    \/ \E t \in Tasks : MarkExecuted(t)
    \/ \E t \in Tasks : MarkDone(t)
    \/ \E t \in Tasks : PipelineSetup(t)
    \/ \E t \in Tasks : Stage(t, "ok")
    \/ \E t \in Tasks : Exit(t, TRUE)
    \/ \E t \in Tasks : WaitTimeout(t)
    \/ \E t \in Tasks : WaitStopped(t)
    \/ start_formula_watcher
    \/ \E c \in Stoppers : StopCall(c)
    \/ \E c \in Stoppers : StopResume(c)
    \/ OperatorEdit

SpecRace == Init /\ [][NextRace]_vars

\* What a stage call does to the control flow of lines 276-313: it returns
\* (the next block is entered) or raises (the handler of its block runs and
\* the next block is entered).
ReturnOrRaise == {"ok", "raise"}

\* The stage call a task is suspended in returns or raises.
StageEnds(t) == \E outcome \in ReturnOrRaise : Stage(t, outcome)

\* The same lifecycle with runs that can fail: the set-up fails or not, each
\* stage call returns or raises, the close of the session raises or not;
\* every fetch returns and every changed row is logged, the transition write
\* commits or fails.
NextDrop ==
    \/ \E t \in Tasks : TaskStart(t)
    \/ \E t \in Tasks : FetchExecute(t, TRUE)
    \/ \E t \in Tasks : Fetch(t, MaxId)
    \/ \E t \in Tasks : MarkExecuted(t)
    \/ \E t \in Tasks : MarkDone(t)
    \/ \E t \in Tasks : PipelineSetup(t)
    \/ \E t \in Tasks : StageEnds(t)
    \/ \E t \in Tasks : PipelineExit(t)
    \/ \E t \in Tasks : WaitTimeout(t)
    \/ \E t \in Tasks : WaitStopped(t)
    \/ start_formula_watcher
    \/ \E c \in Stoppers : StopCall(c)
    \/ \E c \in Stoppers : StopResume(c)
    \/ OperatorEdit

SpecDrop == Init /\ [][NextDrop]_vars

\* ------------------------------------------------- the watcher left running
\* The process between the startup hook and the shutdown hook: start() has
\* no stop() after it and the poll cycles are not bounded.
InitLive ==
    /\ InitSystem
    /\ polls = NoCount
    /\ probe = NoProbe

NextLive ==
    \/ \E t \in Tasks : TaskStart(t)
    \/ \E t \in Tasks : FetchExecuted(t)
    \/ \E t \in Tasks : FetchDone(t)
    \/ \E t \in Tasks : MarkExecuted(t)
    \/ \E t \in Tasks : MarkDone(t)
    \/ \E t \in Tasks : PipelineSetup(t)
    \/ \E t \in Tasks : PipelineStage(t)
    \/ \E t \in Tasks : PipelineExit(t)
    \/ \E t \in Tasks : WaitTimeout(t)
    \/ Startup
    \/ OperatorEdit

\* What the application and the event loop guarantee: the startup hook
\* calls start(), a task that was created is started, and the timeout of
\* wait_for (line 130) fires.  Nothing is assumed of the database, the
\* close of a session or the stage calls: a task suspended in
\* _fetch_recologics, _mark_as_processed or a pipeline run may stay there
\* for ever.
FairLoop ==
    /\ WF_vars(Startup)
    /\ \A t \in Tasks :
         /\ WF_vars(TaskStart(t))
         /\ WF_vars(WaitTimeout(t))

SpecLive == InitLive /\ [][NextLive]_vars /\ FairLoop

\* The same with a database that does not fail and a log that takes every
\* row: every fetch returns and every transition write commits.  FairLoopOk
\* adds that the database, the close of a session and the stage calls
\* always answer, so that a suspended task is resumed.
NextLiveOk ==
    \/ \E t \in Tasks : TaskStart(t)
    \/ \E t \in Tasks : FetchExecute(t, TRUE)
    \/ \E t \in Tasks : Fetch(t, MaxId)
    \/ \E t \in Tasks : MarkExecute(t, "committed")
    \/ \E t \in Tasks : MarkDone(t)
    \/ \E t \in Tasks : PipelineSetup(t)
    \/ \E t \in Tasks : PipelineStage(t)
    \/ \E t \in Tasks : PipelineExit(t)
    \/ \E t \in Tasks : WaitTimeout(t)
    \/ Startup
    \/ OperatorEdit

FairLoopOk ==
    /\ WF_vars(Startup)
    /\ \A t \in Tasks :
         /\ WF_vars(TaskStart(t))
         /\ WF_vars(FetchExecute(t, TRUE))
         /\ WF_vars(Fetch(t, MaxId))
         /\ WF_vars(MarkExecute(t, "committed"))
         /\ WF_vars(MarkDone(t))
         /\ WF_vars(PipelineSetup(t))
         /\ WF_vars(PipelineStage(t))
         /\ WF_vars(PipelineExit(t))
         /\ WF_vars(WaitTimeout(t))

SpecLiveOk == InitLive /\ [][NextLiveOk]_vars /\ FairLoopOk

\* ------------------------------------------- more rows than the fetch takes
\* The table when the process starts with one row more than the LIMIT of the
\* fetch, all ACTIVE with a payload, the row of the highest id written last.
CapTable ==
    [k \in 1..(FetchLimit + 1) |->
        [id |-> FetchLimit + 2 - k, recologic |-> "a", status |-> "ACTIVE"]]

InitCap ==
    /\ reco_logics = CapTable
    /\ InitGlobals
    /\ polls = NoCount
    /\ probe = NoProbe

\* The watcher left running on that table with no operator at work: every
\* fetch returns and every row is logged; a transition write commits or fails.
NextCap ==
    \/ \E t \in Tasks : TaskStart(t)
    \/ \E t \in Tasks : FetchExecute(t, TRUE)
    \/ \E t \in Tasks : Fetch(t, FetchLimit)
    \/ \E t \in Tasks : MarkExecuted(t)
    \/ \E t \in Tasks : MarkDone(t)
    \/ \E t \in Tasks : PipelineSetup(t)
    \/ \E t \in Tasks : PipelineStage(t)
    \/ \E t \in Tasks : PipelineExit(t)
    \/ \E t \in Tasks : WaitTimeout(t)
    \/ Startup

FairCap ==
    /\ WF_vars(Startup)
    /\ \A t \in Tasks :
         /\ WF_vars(TaskStart(t))
         /\ WF_vars(FetchExecute(t, TRUE))
         /\ WF_vars(Fetch(t, FetchLimit))
         /\ WF_vars(MarkExecuted(t))
         /\ WF_vars(MarkDone(t))
         /\ WF_vars(PipelineSetup(t))
         /\ WF_vars(PipelineStage(t))
         /\ WF_vars(PipelineExit(t))
         /\ WF_vars(WaitTimeout(t))

SpecCap == InitCap /\ [][NextCap]_vars /\ FairCap

\* ------------------------------------------------ the detector on its own
\* Fetch results: rows with distinct ids (id is the key of the table).
Rows == [id : Ids, recologic : AnyPayload, status : {"ACTIVE"}]
Distinct(s, key(_)) == \A i, j \in DOMAIN s : key(s[i]) = key(s[j]) => i = j
RowSeqs ==
    {s \in UNION {[1..n -> Rows] : n \in 0..MaxLen} : Distinct(s, LAMBDA r : r.id)}
\* Caches: what lines 117-120 can build, ids to fingerprints.
Caches ==
    {d \in UNION {[1..n -> Ids \X Digests] : n \in 0..MaxId} :
        Distinct(d, LAMBDA kv : kv[1])}

InitDetect ==
    /\ InitSystem
    /\ polls = 0
    /\ \E rs \in RowSeqs, c \in Caches :
         probe = [state |-> "in", records |-> rs, cache |-> c]

\* _detect_changes(records) is called with the cache as it is.
DetectChanges ==
    /\ probe.state = "in"
    /\ LET d == _detect_changes(probe.records, probe.cache)
       IN  probe' = [state |-> "out", records |-> probe.records,
                     cache |-> probe.cache,
                     changed_records |-> d.changed_records,
                     removed_ids |-> d.removed_ids]
    /\ UNCHANGED <<store_vars, global_vars, life_vars, pc, cycle_vars, run_vars,
                   log, wait_event, call, ghost_vars>>

NextDetect == DetectChanges

SpecDetect == InitDetect /\ [][NextDetect]_vars

\* ------------------------------------------- the transition write on its own
\* Tables: rows with distinct ids, a payload and any status, in any order of
\* updated_date.
TableRows == [id : Ids, recologic : Payloads, status : Statuses]
Tables ==
    {s \in UNION {[1..n -> TableRows] : n \in 0..MaxId} : Distinct(s, LAMBDA r : r.id)}

\* Lines 248-249, `except Exception as exc`: a failure of the engines, the
\* session, the UPDATE, the commit or the close of the session is caught
\* and logged at line 249.  (A cancellation of the task is no Exception;
\* the repository cancels no loop task, stop() sets the event and awaits.)
WriteErrorCaught == TRUE

\* What the close of the session does when the block of line 229 is left.
CloseOutcomes == {"closes", "raises"}

\* A call _mark_as_processed(record_ids) at line 220, on any table, with
\* what the database will make of the statement and of the close of the
\* session.  probe.at is the table when the UPDATE is run, probe.moved the
\* row another actor wrote while the call was on its way (0: none),
\* probe.lines the lines at which the call has logged.
InitWrite ==
    /\ InitSystem
    /\ polls = 0
    /\ \E tb \in Tables, ids \in SUBSET Ids, db \in WriteOutcomes,
          cl \in CloseOutcomes :
         probe = [state |-> "called", table |-> tb, record_ids |-> ids,
                  database |-> db, close |-> cl, at |-> tb, moved |-> 0,
                  answer |-> "none", lines |-> <<>>, raised |-> FALSE]

\* Lines 220-221: an empty batch returns before anything is sent.
WriteSkip ==
    /\ probe.state = "called"
    /\ probe.record_ids = {}
    /\ probe' = [probe EXCEPT !.state = "returned"]
    /\ UNCHANGED <<store_vars, global_vars, life_vars, pc, cycle_vars, run_vars,
                   log, wait_event, call, ghost_vars>>

\* Another actor gives a row another status while the call is suspended at
\* line 244 and the UPDATE has not been run.
WriteConcurrent ==
    /\ probe.state = "called"
    /\ probe.record_ids # {}
    /\ probe.moved = 0
    /\ \E k \in DOMAIN probe.table, st \in Statuses :
         /\ st # probe.table[k].status
         /\ probe' = [probe EXCEPT !.table[k].status = st,
                                   !.moved = probe.table[k].id]
    /\ UNCHANGED <<store_vars, global_vars, life_vars, pc, cycle_vars, run_vars,
                   log, wait_event, call, ghost_vars>>

\* Lines 244-245 seen from the database: the UPDATE is committed on the
\* table as it is now, or it fails and the table stays as it is; the call
\* stays suspended.
WriteExecute ==
    /\ probe.state = "called"
    /\ probe.record_ids # {}
    /\ \E later \in LaterRows(probe.table) :
         probe' = [probe EXCEPT
                      !.state = "executed",
                      !.at = probe.table,
                      !.table = IF Applied(probe.database)
                                THEN _mark_as_processed(probe.table,
                                                        probe.record_ids, later)
                                ELSE probe.table,
                      !.answer = Answer(probe.database)]
    /\ UNCHANGED <<store_vars, global_vars, life_vars, pc, cycle_vars, run_vars,
                   log, wait_event, call, ghost_vars>>

\* Lines 244-247: the call resumes with the answer; a success is logged at
\* line 247, inside the session block; either way the block of line 229
\* is left, which suspends the call in the close of the session.
WriteResume ==
    /\ probe.state = "executed"
    /\ probe' = [probe EXCEPT
                    !.state = "closing",
                    !.lines = IF probe.answer = "committed" THEN <<247>> ELSE <<>>]
    /\ UNCHANGED <<store_vars, global_vars, life_vars, pc, cycle_vars, run_vars,
                   log, wait_event, call, ghost_vars>>

\* Lines 229-249 from the close of the session: an exception of the awaits
\* of lines 244-245 or of the close reaches the handler of line 248, which
\* logs it at line 249; then the function returns None.
WriteClose ==
    /\ probe.state = "closing"
    /\ LET failed == probe.answer = "failed" \/ probe.close = "raises"
       IN  probe' = [probe EXCEPT
                        !.state = "returned",
                        !.lines = IF failed THEN Append(@, 249) ELSE @,
                        !.raised = failed /\ ~WriteErrorCaught]
    /\ UNCHANGED <<store_vars, global_vars, life_vars, pc, cycle_vars, run_vars,
                   log, wait_event, call, ghost_vars>>

NextWrite ==
    \/ WriteSkip
    \/ WriteConcurrent
    \/ WriteExecute
    \/ WriteResume
    \/ WriteClose

SpecWrite == InitWrite /\ [][NextWrite]_vars

\* ================================================================ claims
Range(s) == {s[i] : i \in DOMAIN s}
StageNames == <<StageName(1), StageName(2), StageName(3), StageName(4)>>
InPipeline == {t \in Tasks : pc[t] \in PipelinePcs}
\* Task t calls _trigger_recalculations in this step.
TriggerCalledBy(t) == call[t] = "none" /\ call'[t] # "none"
\* The fetch of task t returns in this step.
FetchReturns(t) == pc[t] = "fetch" /\ pc'[t] # "fetch" /\ fetched'[t] = "rows"
\* The database answers the transition write of task t in this step.
WriteAnswered(t) == pc[t] = "mark" /\ reply[t] = NoReply /\ reply'[t] # NoReply
\* The names under which the stages finished so far are stored in results.
StagesDone(t) == MapSeq(LAMBDA e : e[1], results[t])
\* Task t returns from _trigger_recalculations after a run in this step.
RunEnds(t) == pc[t] \in PipelinePcs /\ pc'[t] \notin PipelinePcs
\* Task t ends a poll cycle whose fetch succeeded in this step.
CycleEnds(t) ==
    /\ pc[t] \in {"fetch", "mark"} \cup PipelinePcs
    /\ pc'[t] \in {"wait", "failed"}
    /\ fetched'[t] = "rows"

\* C1: at most one pipeline run is between acquiring and releasing the recalc
\* lock at any instant, whatever loops call _trigger_recalculations.
MutualExclusion == Cardinality(InPipeline) <= 1

\* A run holds the lock while a second loop is about to call the trigger.
MutualExclusionWitness ==
    \E t, u \in Tasks :
        /\ t # u
        /\ pc[t] \in PipelinePcs
        /\ pc[u] = "mark"
        /\ _initialized

\* A call of _trigger_recalculations made while a run holds the lock returns
\* at once: it is marked dropped, executes no stage then or later, is not
\* queued (the call is over when the cycle's next one is made), does not
\* raise (the cycle goes on to the cache update), and leaves the run in
\* progress and the lock as they are.
DropReturnsAtOnce ==
    /\ [](\A t \in Tasks :
            /\ call[t] = "dropped" =>
                   pc[t] \notin PipelinePcs \cup {"acquire"} /\ results[t] = <<>>
            /\ call[t] = "run" <=> pc[t] \in PipelinePcs)
    /\ [][\A t \in Tasks :
            /\ TriggerCalledBy(t) /\ _recalc_lock =>
                   /\ call'[t] = "dropped"
                   /\ pc'[t] \in {"wait", "failed"}
                   /\ _formula_hash_cache' = CacheOf(records'[t])
                   /\ results' = results
                   /\ _recalc_lock'
                   /\ \A u \in Tasks \ {t} : pc'[u] = pc[u]
            /\ call[t] = "dropped" => call'[t] \in {"dropped", "none"}]_vars

\* C2 as stated: the dropped call returns at once, and of the two
\* invocations exactly one executes stages, the full four-stage sequence:
\* the run that holds the lock ends with its four stages executed.
DroppedOneFullRun ==
    /\ DropReturnsAtOnce
    /\ [][\A t, u \in Tasks :
            t # u /\ call[t] = "dropped" /\ RunEnds(u) =>
                StagesDone(u) = StageNames]_vars

\* C2 as amended: the same, but the run that holds the lock executes no
\* stage when its set-up fails (it logs at line 320 and returns); otherwise
\* it executes the full four-stage sequence, whatever the stages and the
\* close of the session do.
DroppedNotQueued ==
    /\ DropReturnsAtOnce
    /\ [][\A t, u \in Tasks :
            t # u /\ call[t] = "dropped" /\ RunEnds(u) =>
                \/ pc[u] = "exit" /\ StagesDone(u) = StageNames
                \/ pc[u] = "setup" /\ log'.line = 320 /\ results[u] = <<>>]_vars

\* A call was dropped, its cycle is in the interval wait, and the run that
\* held the lock has executed its four stages, one of which raised.
DroppedNotQueuedWitness ==
    \E t, u \in Tasks :
        /\ t # u
        /\ call[t] = "dropped"
        /\ pc[t] = "wait"
        /\ pc[u] = "exit"
        /\ StagesDone(u) = StageNames
        /\ stage_failed[u]

\* C3: in the first poll cycle of a watcher started with an empty cache the
\* pipeline is not invoked, and when the cycle ends the cache holds the
\* fingerprints of the fetched rows.
ColdStartSuppressed ==
    /\ [](\A t \in Tasks : cold[t] /\ cycles[t] = 1 => call[t] = "none")
    /\ [][\A t \in Tasks :
            cold[t] /\ cycles[t] = 1 /\ CycleEnds(t) =>
                Keys(_formula_hash_cache') = RowIds(records'[t])]_vars

\* C4: a completed poll cycle that is not the loop's first completed one
\* invokes the pipeline if and only if its detection (run on a fetch that
\* returned rows) found a changed row or a removed id.
LaterCycleTriggersIffFound ==
    \A t \in Tasks :
        pc[t] = "wait" /\ fetched[t] = "rows" /\ completed[t] >= 2 =>
            (call[t] # "none" <=>
                /\ records[t] # <<>>
                /\ changed_records[t] # <<>> \/ removed_ids[t] # <<>>)

\* C5: a non-first poll cycle whose fetch returns no rows while the cache is
\* not empty reports every cached id as removed, triggers the pipeline and
\* empties the cache.
EmptyFetchTriggersRemoval ==
    [][\A t \in Tasks :
         (/\ FetchReturns(t)
          /\ cycles[t] >= 2
          /\ records'[t] = <<>>
          /\ _formula_hash_cache # <<>>) =>
             /\ Range(removed_ids'[t]) = Keys(_formula_hash_cache)
             /\ call'[t] # "none"
             /\ _formula_hash_cache' = <<>>]_vars

\* C6: whatever stages fail, by raising or by returning an error result, all
\* four stages run, the logged results hold one entry per stage, and the
\* success flag is false exactly when some stage failed.
AllStagesRunFlagExact ==
    /\ \A t \in Tasks, k \in 1..4 :
         pc[t] = StagePc(k) => Len(results[t]) = k - 1
    /\ log.line = 315 =>
         /\ log.stages = StageNames
         /\ log.all_successful <=> ~log.stage_failed

\* C7: _trigger_recalculations always returns to line 114: when a run ends,
\* after a failed set-up or after the fourth stage whatever the stages did
\* (and whether or not the results could be logged), the cycle goes on to the
\* cache update of lines 116-123.
TriggerNeverRaises ==
    /\ [](\A t \in Tasks : call[t] # "raised")
    /\ [][\A t \in Tasks :
            RunEnds(t) =>
                /\ call'[t] = "returned"
                /\ pc'[t] \in {"wait", "failed"}
                /\ _formula_hash_cache' = CacheOf(records[t])
                /\ _initialized']_vars

\* A run has just ended in the handler of line 319 (its set-up failed, or
\* json.dumps refused the results, or the session did not close), and the loop
\* is in its interval wait with the cache of its cycle.
TriggerNeverRaisesWitness ==
    /\ log.line = 320
    /\ call[log.task] = "returned"
    /\ pc[log.task] = "wait"
    /\ _formula_hash_cache = CacheOf(records[log.task])

\* C8: the lock is held only while a run is in progress: it is free after a
\* run that completed, had failing stages or failed in its set-up, and a
\* call made when no run is in progress runs the stages.
LockFreeAfterRun ==
    /\ [](_recalc_lock <=> InPipeline # {})
    /\ [](log.line = 320 => ~_recalc_lock)
    /\ [][\A t \in Tasks : RunEnds(t) => ~_recalc_lock']_vars
    /\ [][\A t \in Tasks :
            TriggerCalledBy(t) /\ InPipeline = {} =>
                call'[t] = "run" /\ pc'[t] = "setup" /\ _recalc_lock']_vars

\* The run of a loop's cycle has ended without an exception after stages
\* that could fail, the loop is in its interval wait, and the lock is free.
LockFreeAfterRunWitness ==
    \E t \in Tasks :
        /\ call[t] = "returned"
        /\ pc[t] = "wait"
        /\ log = NoLog
        /\ ~_recalc_lock

\* C9: _detect_changes puts a fetched row in changed_records if and only if
\* its id is not cached or its fingerprint differs from the cached one.
CachedFingerprints(cache, id) == {kv[2] : kv \in {x \in Range(cache) : x[1] = id}}
ChangedIffNewOrDiffers ==
    probe.state = "out" =>
        /\ Range(probe.changed_records) \subseteq Range(probe.records)
        /\ \A row \in Range(probe.records) :
             row \in Range(probe.changed_records) <=>
                \/ row.id \notin Keys(probe.cache)
                \/ _hash_recologic(row.recologic)
                       \notin CachedFingerprints(probe.cache, row.id)

\* One fetched row is cached with its fingerprint, another with a different one.
ChangedIffNewOrDiffersWitness ==
    /\ probe.state = "out"
    /\ \E r1, r2 \in Range(probe.records) :
         /\ r1.id \in Keys(probe.cache)
         /\ r1 \notin Range(probe.changed_records)
         /\ r2.id \in Keys(probe.cache)
         /\ r2 \in Range(probe.changed_records)

\* C10: removed_ids holds exactly the cached ids that are not fetched, each
\* once, whatever the fingerprints; no id is both changed and removed.
RemovedExactlyMissing ==
    probe.state = "out" =>
        /\ Range(probe.removed_ids) = Keys(probe.cache) \ RowIds(probe.records)
        /\ Distinct(probe.removed_ids, LAMBDA rid : rid)
        /\ Range(probe.removed_ids) \cap RowIds(probe.changed_records) = {}

\* A cached id is missing from a fetch that holds an unchanged row.
RemovedExactlyMissingWitness ==
    /\ probe.state = "out"
    /\ probe.removed_ids # <<>>
    /\ probe.records # <<>>
    /\ Len(probe.changed_records) < Len(probe.records)

\* The ids and payloads of fetched rows.
IdPayloads(rows) == {<<rows[i].id, rows[i].recologic>> : i \in DOMAIN rows}

\* C11: a poll cycle of a loop that fetches the same rows with the same
\* payloads as the loop's previous cycle, whose fetch returned too, classifies
\* no row as changed and no id as removed, issues no transition write and
\* does not call the trigger.
IdempotentRefetch ==
    [][\A t \in Tasks :
         (/\ FetchReturns(t)
          /\ fetched[t] = "rows"
          /\ records[t] # <<>>
          /\ IdPayloads(records'[t]) = IdPayloads(records[t])) =>
             /\ changed_records'[t] = <<>>
             /\ removed_ids'[t] = <<>>
             /\ pc'[t] \in {"wait", "failed"}
             /\ call'[t] = "none"
             /\ _formula_hash_cache' = CacheOf(records'[t])]_vars

\* A loop's second cycle has completed on a non-empty fetch with nothing
\* changed and nothing removed.
IdempotentRefetchWitness ==
    \E t \in Tasks :
        /\ pc[t] = "wait"
        /\ cycles[t] = 2
        /\ completed[t] = 2
        /\ fetched[t] = "rows"
        /\ records[t] # <<>>
        /\ changed_records[t] = <<>>
        /\ removed_ids[t] = <<>>

\* Task t ends, in this step, a poll cycle whose fetch returned, whatever
\* happened after the fetch.
FetchedCycleEnds(t) ==
    /\ pc[t] \in {"fetch", "mark"} \cup PipelinePcs
    /\ pc'[t] \in {"wait", "failed"}
    /\ fetched'[t] \in {"rows", "log_raised"}

\* C12: when a poll cycle whose fetch returned ends, the cache maps exactly
\* the ids of the rows fetched in that cycle to the fingerprints of their
\* payloads, whether or not the transition write or the pipeline run failed.
CacheIsLastFetch ==
    [][\A t \in Tasks :
         FetchedCycleEnds(t) =>
             /\ Keys(_formula_hash_cache') = RowIds(records'[t])
             /\ Len(_formula_hash_cache') = Len(records'[t])
             /\ \A row \in Range(records'[t]) :
                  DictGet(_formula_hash_cache', row.id) = _hash_recologic(row.recologic)]_vars

\* Row i is in the store with a payload and status ACTIVE or UPDATED.
Pending(i) ==
    \E k \in DOMAIN reco_logics : reco_logics[k].id = i /\ Visible(reco_logics[k])

\* C13: with polls completing and transition writes succeeding, a row that
\* is ACTIVE or UPDATED with a payload is eventually transitioned to
\* PROCESSED: no row stays ACTIVE or UPDATED forever.
NoUpdateLost == \A i \in Ids : Pending(i) ~> ~Pending(i)

\* C14: a changed row whose transition write failed stays as it was and is
\* classified as changed again by the loop's next poll cycle.  (A row
\* fetched as ACTIVE that is still ACTIVE in the store was not transitioned.)
FailedWriteRedetected ==
    [][\A t \in Tasks :
         (/\ FetchReturns(t)
          /\ fetched[t] = "rows"
          /\ records[t] # <<>>) =>
             \A row \in Range(changed_records[t]) :
                 (/\ row.status = "ACTIVE"
                  /\ row \in Range(reco_logics)
                  /\ row \in Range(records'[t])) =>
                     row \in Range(changed_records'[t])]_vars

\* C15: the poll loop does not wait for the pipeline it triggers: the step
\* of a cycle that invokes the pipeline takes the loop on to the cache update
\* and its interval wait, whether or not the run that it invoked has ended
\* (so that later cycles start while the run executes, or hangs).
TriggerNotAwaited ==
    [][\A t \in Tasks :
         TriggerCalledBy(t) => pc'[t] \in {"wait", "failed"}]_vars

\* C16: stop() does not wait for an in-flight pipeline run: the task that a
\* suspended stop() awaits is never inside a run, and a step of stop() leaves
\* a run in flight where it is (it is not cancelled).
StopIndependentOfRun ==
    /\ [](\A c \in Stoppers :
            stop_pc[c] = "await" => pc[stop_task[c]] \notin PipelinePcs)
    /\ [][\A c \in Stoppers :
            stop_pc'[c] # stop_pc[c] =>
                \A t \in Tasks : pc[t] \in PipelinePcs => pc'[t] = pc[t]]_vars

\* The loop tasks that are running.
Alive == {t \in Tasks : pc[t] \notin {"none"} \cup DonePcs}

\* C17: at most one watcher loop task is running at a time, a task is
\* created only when none is running, and a start() called while a loop is
\* running (the log of line 144) creates no task and leaves the task handle
\* and the stop event as they are.
SingleLoop ==
    /\ [](Cardinality(Alive) <= 1)
    /\ [][\A n \in Tasks : pc[n] = "none" /\ pc'[n] # "none" => Alive = {}]_vars
    /\ [][Alive # {} /\ log'.line \in {144, 149} =>
            /\ log'.line = 144
            /\ _watcher_task' = _watcher_task
            /\ _stop_event' = _stop_event
            /\ event_set' = event_set
            /\ pc' = pc]_vars

\* start() has just returned at line 145 while the loop is in a pipeline run.
SingleLoopWitness ==
    /\ log.line = 144
    /\ _watcher_task \in Alive
    /\ pc[_watcher_task] \in PipelinePcs

\* C18: stop() called while the watcher is stopped (the handle is None: never
\* started, or already stopped) changes nothing: no task is created, ended or
\* awaited, the cache, the initialized flag and the store are as before, and
\* the call returns at line 156.  (A step of stop() that resumes no suspended
\* caller is a call.)
StopWhenStoppedNoOp ==
    [][(/\ _watcher_task = 0
        /\ log'.line \in {156, 159, 162}
        /\ \A c \in Stoppers : stop_pc[c] = "await" => stop_pc'[c] = "await") =>
          /\ log'.line = 156
          /\ UNCHANGED <<reco_logics, _formula_hash_cache, _initialized,
                         _recalc_lock, _watcher_task, _stop_event, event_set,
                         pc, stop_pc, stop_task>>]_vars

\* stop() has just returned at line 156 after a watcher was run and stopped.
StopWhenStoppedNoOpWitness ==
    /\ log.line = 156
    /\ _watcher_task = 0
    /\ _initialized
    /\ _formula_hash_cache # <<>>
    /\ \E t \in Tasks : pc[t] = "done"

\* C19: once the stop signal of a loop (the event created with its task) is
\* set, no new poll cycle begins in that loop; a loop in its interval wait
\* waits on that event, so that a stop request ends the wait at once, and
\* the step that ends the wait ends the loop.
StopEndsLoop ==
    /\ [](\A t \in Tasks :
            pc[t] = "wait" /\ t \in event_set => wait_event[t] \in event_set)
    /\ [][\A t \in Tasks :
            t \in event_set =>
                /\ pc[t] # "fetch" => pc'[t] # "fetch"
                /\ pc[t] = "wait" /\ pc'[t] # "wait" => pc'[t] = "done"]_vars

\* stop() has set the event of a loop that is in its interval wait after a
\* completed cycle, and is suspended on the loop task.
StopEndsLoopWitness ==
    \E t \in Tasks, c \in Stoppers :
        /\ pc[t] = "wait"
        /\ completed[t] >= 1
        /\ t \in event_set
        /\ stop_pc[c] = "await"
        /\ stop_task[c] = t

\* The transition write of task t's last cycle failed: a row that the cycle
\* found changed is in the store as it was fetched, still ACTIVE.
WriteFailed(t) ==
    /\ pc[t] \notin {"none", "start", "fetch", "mark"} \cup DonePcs
    /\ fetched[t] = "rows"
    /\ records[t] # <<>>
    /\ \E row \in Range(changed_records[t]) :
         row.status = "ACTIVE" /\ row \in Range(reco_logics)

PlaceOf(table, id) == CHOOSE k \in DOMAIN table : table[k].id = id

\* C21: the transition write changes only rows whose id is in the batch and
\* whose status is ACTIVE or UPDATED when the UPDATE is run, and a write that
\* the database commits sets every one of them to PROCESSED; every other
\* row, a batch row of another status included, is left as it is (its
\* content and its place among the rows left alone), no row is added or
\* dropped, a write that the database fails changes nothing, an error is
\* logged only when the database or the close of the session fails (never
\* because a batch row is not eligible), and the call returns without
\* raising in every case.
TransitionWriteFrame ==
    /\ probe.state \in {"executed", "closing", "returned"}
           /\ probe.answer # "none" =>
        LET old == probe.at
            new == probe.table
            hit(r) == r.id \in probe.record_ids /\ r.status \in {"ACTIVE", "UPDATED"}
            kept == {r \in Range(old) : ~hit(r)}
        IN  /\ Len(new) = Len(old)
            /\ RowIds(new) = RowIds(old)
            /\ \A r \in Range(old) :
                 IF hit(r) /\ Applied(probe.database)
                 THEN [r EXCEPT !.status = "PROCESSED"] \in Range(new)
                 ELSE r \in Range(new)
            /\ \A r, q \in kept :
                 PlaceOf(old, r.id) < PlaceOf(old, q.id) =>
                     PlaceOf(new, r.id) < PlaceOf(new, q.id)
            /\ ~Applied(probe.database) => new = old
            /\ probe.answer = "committed" <=> probe.database = "committed"
    /\ probe.state = "returned" =>
            /\ ~probe.raised
            /\ probe.answer = "none" <=> probe.record_ids = {}
            /\ probe.answer = "none" => probe.table = probe.at /\ probe.lines = <<>>
            /\ probe.answer # "none" =>
                   probe.lines =
                       (CASE probe.database = "committed" /\ probe.close = "closes"
                                 -> <<247>>
                          [] probe.database = "committed" /\ probe.close = "raises"
                                 -> <<247, 249>>
                          [] OTHER -> <<249>>)

\* A write has returned after committing, with no error logged: a row of
\* its batch that another actor had moved to a status the watcher does not
\* name, while the call was suspended, is as that actor left it, and the
\* other row of the batch, still ACTIVE when the UPDATE ran, is PROCESSED.
TransitionWriteFrameWitness ==
    /\ probe.state = "returned"
    /\ probe.database = "committed"
    /\ probe.lines = <<247>>
    /\ probe.moved \in probe.record_ids
    /\ \E r, q \in Range(probe.at) :
         /\ r.id = probe.moved
         /\ r.status = "OTHER"
         /\ r \in Range(probe.table)
         /\ q.id \in probe.record_ids
         /\ q.status = "ACTIVE"
         /\ [q EXCEPT !.status = "PROCESSED"] \in Range(probe.table)

\* C22: a cycle that found changed rows invokes the pipeline only in the step
\* in which the await of its transition write ends, so the write is issued
\* before the first stage starts; and no step of a pipeline run, whatever its
\* stages do, writes the formula table.
WriteBeforePipeline ==
    /\ [][\A t \in Tasks :
            TriggerCalledBy(t) /\ changed_records'[t] # <<>> =>
                pc[t] = "mark" /\ reply[t].kind \in {"committed", "failed"}]_vars
    /\ [](\A t \in Tasks : pc[t] \in PipelinePcs => fetched[t] = "rows")
    /\ [][\A t \in Tasks :
            pc[t] \in PipelinePcs /\ pc'[t] # pc[t] => reco_logics' = reco_logics]_vars

\* The first three stages of a run have raised, and the rows the cycle found
\* changed are PROCESSED in the store.
WriteBeforePipelineWitness ==
    \E t \in Tasks :
        /\ pc[t] = "stage4"
        /\ \A k \in 1..3 : results[t][k][2] = "error_raised"
        /\ changed_records[t] # <<>>
        /\ \A row \in Range(changed_records[t]) :
             \E r \in Range(reco_logics) : r.id = row.id /\ r.status = "PROCESSED"

\* C23: in every pipeline run the stages start in the order populate
\* dashboard, generate matching table, prepare self-reconciliation, prepare
\* cross-reconciliation: the first starts after the set-up, stage k+1 starts
\* in the step in which stage k returns or raises, the run ends with the
\* fourth, and the stages that have finished are the first ones of that
\* order, each once.
StagesInOrder ==
    /\ [](\A t \in Tasks :
            pc[t] \in PipelinePcs \ {"setup"} =>
                StagesDone(t) = SubSeq(StageNames, 1, StageOf(pc[t]) - 1))
    /\ [](log.line = 315 => log.stages = StageNames)
    /\ [][\A t \in Tasks :
            /\ pc'[t] = "stage1" /\ pc[t] # "stage1" => pc[t] \in {"setup", "acquire"}
            /\ pc[t] = "stage1" /\ pc'[t] # "stage1" => pc'[t] = "stage2"
            /\ pc[t] = "stage2" /\ pc'[t] # "stage2" => pc'[t] = "stage3"
            /\ pc[t] = "stage3" /\ pc'[t] # "stage3" => pc'[t] = "stage4"
            /\ pc[t] = "stage4" /\ pc'[t] # "stage4" => pc'[t] = "exit"
            /\ pc[t] = "exit" /\ pc'[t] # "exit" => pc'[t] \notin PipelinePcs]_vars

\* The third stage runs after the first raised and the second returned.
StagesInOrderWitness ==
    \E t \in Tasks :
        /\ pc[t] = "stage3"
        /\ results[t] = <<<<"populate_threepo", "error_raised">>,
                          <<"generate_trm", "success">>>>

\* The fetch of task t returns rows in this step, whatever the cycle does next.
FetchGivesRows(t) ==
    /\ pc[t] = "fetch"
    /\ pc'[t] # "fetch"
    /\ fetched'[t] \in {"rows", "log_raised"}
    /\ records'[t] # <<>>

\* C24: a poll cycle that finds changed rows and logs some of them issues the
\* transition write, once, for the ids of the rows it logged and no others; a
\* cycle that finds no changed row issues none.
OneWritePerCycle ==
    /\ [][\A t \in Tasks :
            FetchGivesRows(t) =>
                /\ changed_records'[t] # <<>> /\ processed_ids'[t] # {} =>
                       pc'[t] = "mark"
                /\ changed_records'[t] = <<>> => pc'[t] # "mark"]_vars
    /\ [](\A t \in Tasks :
            pc[t] = "mark" => processed_ids[t] \subseteq RowIds(changed_records[t]))
    /\ [][\A t \in Tasks :
            /\ WriteAnswered(t) =>
                   /\ pc'[t] = "mark"
                   /\ reco_logics' \in
                          {reco_logics} \cup
                          {_mark_as_processed(reco_logics, processed_ids[t], later) :
                               later \in LaterRows(reco_logics)}
            /\ pc[t] = "mark" /\ reply[t] # NoReply /\ reply'[t] # reply[t] =>
                   /\ reco_logics' = reco_logics
                   /\ pc'[t] \in {"wait", "failed", "setup", "acquire"}
            /\ pc[t] = "mark" /\ pc'[t] # "mark" => reply[t] # NoReply]_vars

\* C25: whenever a loop launched by start() begins its first poll cycle, after
\* a first start() or after a stop() and a further start(), the fingerprint
\* cache is empty.
CacheEmptyAtStart ==
    [][\A t \in Tasks :
         pc[t] = "start" /\ pc'[t] = "fetch" => _formula_hash_cache = <<>>]_vars

\* The ids of the rows of a table that the fetch query matches.
VisibleIds(table) == RowIds(SelectSeq(table, Visible))

\* Row i is among the rows that the last fetch of some loop returned.
InWindow(i) == \E t \in Tasks : fetched[t] = "rows" /\ i \in RowIds(records[t])

\* C26: with more rows ACTIVE or UPDATED than the fetch takes, a poll cycle
\* fetches the most recently updated FetchLimit of them, and its transition
\* write leaves the others as they are; with no further edits every row
\* that is ACTIVE or UPDATED enters the fetch window of some cycle (as it
\* must, to be transitioned to PROCESSED).
CapDrains ==
    /\ [][\A t \in Tasks :
            (/\ pc[t] = "fetch"
             /\ reply[t] = NoReply
             /\ reply'[t] # NoReply
             /\ Cardinality(VisibleIds(reco_logics)) > FetchLimit) =>
                /\ Len(reply'[t].rows) = FetchLimit
                /\ reply'[t].rows = SubSeq(SelectSeq(reco_logics, Visible), 1, FetchLimit)]_vars
    /\ [][\A t \in Tasks : FetchReturns(t) => records'[t] = reply[t].rows]_vars
    /\ [][\A t \in Tasks :
            WriteAnswered(t) =>
                \A row \in Range(reco_logics) :
                    row.id \notin RowIds(records[t]) => row \in Range(reco_logics')]_vars
    /\ \A i \in 1..(FetchLimit + 1) : Pending(i) ~> InWindow(i)

\* C27: under every interleaving of start() and stop() the lifecycle globals
\* are consistent: a loop task that is alive is the task of the handle, and
\* the stop event is not None, so that no loop is orphaned and no start()
\* is lost.
LifecycleConsistent ==
    \A t \in Alive : _watcher_task = t /\ _stop_event # 0

\* C28: a poll cycle whose fetch raises ends in that step with the cache, the
\* initialized flag and the table as they were and with no pipeline invoked;
\* nothing changes the cache until the loop's next fetch returns, and the
\* rows it returns are diffed against the cache as it was before the failed
\* cycle.
FetchErrorFrame ==
    /\ [][\A t \in Tasks :
            pc[t] = "fetch" /\ pc'[t] # "fetch" /\ fetched'[t] = "raised" =>
                /\ pc'[t] \in {"wait", "failed"}
                /\ _formula_hash_cache' = _formula_hash_cache
                /\ _initialized' = _initialized
                /\ reco_logics' = reco_logics
                /\ _recalc_lock' = _recalc_lock
                /\ call'[t] = "none"]_vars
    /\ [][\A t \in Tasks :
            fetched[t] = "raised" /\ pc[t] \in {"wait", "fetch"} =>
                \/ _formula_hash_cache' = _formula_hash_cache
                \/ /\ FetchReturns(t)
                   /\ records'[t] # <<>> =>
                          /\ changed_records'[t] =
                                 _detect_changes(records'[t], _formula_hash_cache).changed_records
                          /\ removed_ids'[t] =
                                 _detect_changes(records'[t], _formula_hash_cache).removed_ids]_vars

\* A loop is in its interval wait after a fetch that raised, the cache
\* holding the fingerprints of its first cycle.
FetchErrorFrameWitness ==
    \E t \in Tasks :
        /\ pc[t] = "wait"
        /\ fetched[t] = "raised"
        /\ cycles[t] = 2
        /\ completed[t] = 1
        /\ _initialized
        /\ _formula_hash_cache # <<>>
        /\ _formula_hash_cache = CacheOf(records[t])

\* Task t ends, in this step, a cycle that found changed rows or removed ids
\* and did not call the trigger.
Suppressed(t) ==
    /\ CycleEnds(t)
    /\ records'[t] # <<>>
    /\ changed_records'[t] # <<>> \/ removed_ids'[t] # <<>>
    /\ call'[t] = "none"

\* C29: _initialized never goes back to false, whatever stop() and start()
\* do; it is true once a cycle with a non-empty fetch has completed; and a
\* cycle is kept from the trigger by the flag only while the flag is false,
\* setting it, so that this happens at most once in the process.
InitializedMonotonic ==
    /\ [][_initialized => _initialized']_vars
    /\ [][\A t \in Tasks : CycleEnds(t) /\ records'[t] # <<>> => _initialized']_vars
    /\ [][\A t \in Tasks : Suppressed(t) => ~_initialized /\ _initialized']_vars

\* The first poll cycle of a loop started after a stop() is in a pipeline run.
InitializedMonotonicWitness ==
    \E t \in Tasks :
        /\ t > 1
        /\ pc[1] = "done"
        /\ cycles[t] = 1
        /\ pc[t] \in PipelinePcs
        /\ _watcher_task = t

\* What C30 says of the lock: with one loop alive at a time no call of the
\* trigger is dropped or made to wait, the lock is free whenever a poll cycle
\* starts, and every call takes the lock.
NeverSkipped ==
    /\ [](\A t \in Tasks : call[t] \notin {"dropped", "queued"})
    /\ [](\A t \in Tasks : pc[t] = "fetch" => ~_recalc_lock)
    /\ [][\A t \in Tasks :
            TriggerCalledBy(t) => call'[t] = "run" /\ pc'[t] = "setup"]_vars

\* C30 as stated: while one loop is the only caller of the trigger, the
\* skip branch is never reached, the lock is free at the start of every poll
\* cycle, and every trigger executes the full stage sequence.
SingleLoopFullRun ==
    /\ NeverSkipped
    /\ [][\A t \in Tasks : RunEnds(t) => StagesDone(t) = StageNames]_vars

\* C30 as amended: the same, but a trigger whose set-up fails executes no
\* stage (it logs at line 320 and returns); every other trigger executes
\* the full stage sequence.
SingleLoopRunsUnlessSetupFails ==
    /\ NeverSkipped
    /\ [][\A t \in Tasks :
            RunEnds(t) =>
                \/ pc[t] = "exit" /\ StagesDone(t) = StageNames
                \/ pc[t] = "setup" /\ log'.line = 320 /\ results[t] = <<>>]_vars

\* The only loop alive is leaving a run of its second cycle: the four stages
\* were executed and their results logged.
SingleLoopRunsUnlessSetupFailsWitness ==
    \E t \in Tasks :
        /\ Alive = {t}
        /\ pc[t] = "exit"
        /\ StagesDone(t) = StageNames
        /\ log.line = 315
        /\ log.task = t
        /\ call[t] = "run"
        /\ cycles[t] = 2

====
